---- MODULE Spec2Model ----
(***************************************************************************)
(* A model of the redis-client HTTP gateway (src/src/main.rs).             *)
(*                                                                         *)
(* One process holds AppState { client: Mutex<Box<dyn RedisAPI>> }.  Every *)
(* request is a task on one of the server's worker threads; a worker runs  *)
(* its tasks cooperatively on a single thread.  get_value and set_value    *)
(* take the std::sync::Mutex with a blocking lock(), keep the guard across *)
(* the awaited backend call, and release it when the handler returns.      *)
(***************************************************************************)
EXTENDS Integers, FiniteSets, Sequences, TLC

\* ------------------------------------------------------------------ bounds
NumReqs == 2
NumWorkers == 2
\* Writes by other clients of the backend that a run may contain.
MaxOtherWrites == 1

Reqs == 1..NumReqs
Workers == 1..NumWorkers
\* JSON strings a request may carry; the empty string is a legal String.
Keys == {"", "a"}
Values == {"", "1"}
Routes == {"GET", "POST"}
\* What Box<dyn RedisAPI> holds: the RedisClient main installs, or another
\* implementation of the trait whose get/set may panic.
Impls == {"RedisClient", "PanickingImpl"}
\* The address main passes to RedisClient::new, and addresses that do not
\* parse: a foreign scheme, a missing host, no URL at all.
MainUrl == [scheme |-> "redis", host |-> "127.0.0.1"]
Urls == {MainUrl, [scheme |-> "http", host |-> "127.0.0.1"],
         [scheme |-> "redis", host |-> ""], [scheme |-> "", host |-> ""]}
\* The one AppState main builds and moves into the App factory.
SharedData == 1

VARIABLES
    proc,         \* the process: init, constructed, serving, aborted, exited
    redisUrl,     \* the address given to RedisClient::new
    appData,      \* per worker: the AppState its App refers to, 0 before run
    clientImpl,   \* the implementation behind AppState.client
    pc,           \* per request: position of its task
    req,          \* per request: route, body and the worker it was accepted on
    holder,       \* request owning the MutexGuard, 0 when the Mutex is free
    poisoned,     \* the Mutex's poison flag
    store,        \* the backend: key -> redis value
    otherWrites,  \* writes made so far by other clients of the backend
    resp,         \* per request: the HTTP response sent
    acq,          \* per request: result of data.client.lock()
    connected,    \* per request: get_multiplexed_async_connection succeeded
    ncmd,         \* per request: backend commands issued
    outcome,      \* per request: Result of client.get / client.set
    lastWrite     \* per key: value of the latest write that reached the backend

\* What startup sets and nothing changes afterwards.
boot == <<proc, redisUrl, appData>>

vars == <<boot, clientImpl, pc, req, holder, poisoned, store, otherWrites, resp,
          acq, connected, ncmd, outcome, lastWrite>>

\* ------------------------------------------------------------ redis values
Nil == [t |-> "nil", s |-> ""]
Str(v) == [t |-> "str", s |-> v]
NotAString == [t |-> "list", s |-> ""]
\* What other clients of the backend store: a string of their own, or a list.
OtherValues == {Str("x"), NotAString}

\* Result<T, RedisError>
Ok(v) == [ok |-> TRUE, val |-> v, err |-> ""]
Err(e) == [ok |-> FALSE, val |-> "", err |-> e]
NoResult == [ok |-> FALSE, val |-> "", err |-> ""]

\* ToRedisArgs for &str: the bytes of the string, as one bulk string.
ToRedisArgs(v) == Str(v)

\* FromRedisValue, had it rendered the string with {:?}, quotes included.
FromRedisValue_Quoted(x) ==
    IF x.t = "str" THEN Ok("\"" \o x.s \o "\"")
    ELSE IF x.t = "nil" THEN Err("TypeError: response was nil")
    ELSE Err("ResponseError: WRONGTYPE")

\* FromRedisValue, had the call asked for Option<String> and defaulted nil.
FromRedisValue_NilAsEmpty(x) ==
    IF x.t = "str" THEN Ok(x.s)
    ELSE IF x.t = "nil" THEN Ok("")
    ELSE Err("ResponseError: WRONGTYPE")

\* FromRedisValue for String: a bulk string converts, nil does not.
FromRedisValue(x) ==
    IF x.t = "str" THEN Ok(x.s)
    ELSE IF x.t = "nil" THEN Err("TypeError: response was nil")
    ELSE Err("ResponseError: WRONGTYPE")

\* The server's reply to GET key.
RedisGetReply(k) == store[k]

\* The store, had the client sent GETDEL: the key read is removed.
RedisGetStore_GetDel(k) == [store EXCEPT ![k] = Nil]

\* The store after GET key: as before.
RedisGetStore(k) == store

\* The store, had the client sent SETNX: an existing key keeps its value.
RedisSetStore_NoOverwrite(k, v) ==
    IF store[k] = Nil THEN [store EXCEPT ![k] = ToRedisArgs(v)] ELSE store

\* The store after SET key value.
RedisSetStore(k, v) == [store EXCEPT ![k] = ToRedisArgs(v)]

\* ------------------------------------------------------------ HTTP bodies
Response(status, kind, key, value, body) ==
    [status |-> status, kind |-> kind, key |-> key, value |-> value, body |-> body]
NoResp == Response(0, "none", "", "", "")

\* MyError
LockError == [tag |-> "LockError", detail |-> ""]
ClientError(e) == [tag |-> "ClientError", detail |-> e]

\* error_response, had both variants shared the ClientError arm.
ErrorResponse_Leaky(e) ==
    Response(500, "String", "", "", "Failed to retrieve value: " \o e.detail)

\* impl ResponseError for MyError
ErrorResponse(e) ==
    IF e.tag = "LockError"
    THEN Response(500, "String", "", "", "Internal server error")
    ELSE Response(500, "String", "", "", "Failed to retrieve value: " \o e.detail)

\* The 200 body of get_value, had key and value been filled the wrong way round.
GetValueOk_Swapped(key, val) == Response(200, "GetValueResp", val, key, "")

\* HttpResponse::Ok().json(GetValueResp { key: req.key.clone(), value: val })
GetValueOk(key, val) == Response(200, "GetValueResp", key, val, "")

\* HttpResponse::Ok().json(res), res: ()
SetValueOk == Response(200, "Unit", "", "", "null")

\* The web::Json<T> extractor's answer to a body that does not deserialize.
JsonRejected == Response(400, "JsonPayloadError", "", "", "Json deserialize error")

\* ------------------------------------------------------------------- Init
NoReq == [route |-> "GET", key |-> "", value |-> "", worker |-> 1, wf |-> TRUE]

Init ==
    /\ proc = "init"
    /\ redisUrl \in Urls
    /\ appData = [w \in Workers |-> 0]
    /\ clientImpl \in Impls
    /\ pc = [r \in Reqs |-> "new"]
    /\ req = [r \in Reqs |-> NoReq]
    /\ holder = 0
    /\ poisoned = FALSE
    /\ store = [k \in Keys |-> Nil]
    /\ otherWrites = 0
    /\ resp = [r \in Reqs |-> NoResp]
    /\ acq = [r \in Reqs |-> "none"]
    /\ connected = [r \in Reqs |-> FALSE]
    /\ ncmd = [r \in Reqs |-> 0]
    /\ outcome = [r \in Reqs |-> NoResult]
    /\ lastWrite = [k \in Keys |-> Nil]

\* ---------------------------------------------------------------- helpers
\* A worker thread runs one task at a time; a task inside the blocking
\* Mutex::lock() keeps the whole thread, so no other task of that worker runs.
WorkerFree(w, r) ==
    \A o \in Reqs \ {r} : ~(pc[o] = "locking" /\ req[o].worker = w)

ThreadFree(r) == WorkerFree(req[r].worker, r)

\* A lock that excludes nobody.
MutexAvailable_NoExclusion == TRUE

MutexAvailable == holder = 0

\* An extractor that lets every body through, with defaulted fields.
JsonExtractOk_Lenient(q) == TRUE

\* web::Json<T>: the body deserializes into the request struct.
JsonExtractOk(q) == q.wf

\* The handler's return, had the guard been leaked (mem::forget) instead of
\* dropped.
Finish_KeepGuard(r, response) ==
    /\ pc' = [pc EXCEPT ![r] = "done"]
    /\ resp' = [resp EXCEPT ![r] = response]
    /\ holder' = holder

\* The handler returns: the response is sent and the guard, if held, dropped.
Finish(r, response) ==
    /\ pc' = [pc EXCEPT ![r] = "done"]
    /\ resp' = [resp EXCEPT ![r] = response]
    /\ holder' = IF holder = r THEN 0 ELSE holder

\* The workers a new request may land on.  Workers are interchangeable, so
\* they are numbered in the order of their first request.
OpenWorkers(r) ==
    {w \in Workers : \A u \in Workers : u < w => \E o \in Reqs : o < r /\ req[o].worker = u}

\* The requests the server may hand to a worker next: a GET or a POST whose
\* body deserializes, or one whose body does not.
Incoming(r) ==
    {[route |-> "GET", key |-> k, value |-> "", worker |-> w, wf |-> TRUE] :
        k \in Keys, w \in OpenWorkers(r)}
    \cup {[route |-> "POST", key |-> k, value |-> v, worker |-> w, wf |-> TRUE] :
        k \in Keys, v \in Values, w \in OpenWorkers(r)}
    \cup {[route |-> rt, key |-> "", value |-> "", worker |-> w, wf |-> FALSE] :
        rt \in Routes, w \in OpenWorkers(r)}

\* The requests a worker thread may start on: requests are numbered in the
\* order in which their workers start on them.
Dispatched(r) ==
    IF proc = "serving" /\ pc[r] = "new" /\ \A o \in Reqs : o < r => pc[o] # "new"
    THEN {q \in Incoming(r) : WorkerFree(q.worker, r)}
    ELSE {}

\* The requests whose task is at data.client.lock(): just dispatched, or woken
\* from the blocking wait.
AtLock(r) ==
    IF pc[r] = "locking" THEN {req[r]} ELSE {q \in Dispatched(r) : JsonExtractOk(q)}

\* ---------------------------------------------------------------- startup
\* redis::Client::open, had it taken any string for an address.
UrlParses_Anything(u) == TRUE

\* redis::Client::open(redis_url): the address is a redis URL with a host.
UrlParses(u) ==
    /\ u.scheme \in {"redis", "rediss"}
    /\ u.host # ""

\* The App factory, had it built an AppState of its own for each worker.
AppFactory_PerWorker(w) == SharedData + w

\* The App factory HttpServer runs once per worker: shared_data.clone() is
\* another reference to the same AppState.
AppFactory(w) == SharedData

\* RedisClient::new: Client::open parses the address and opens no connection;
\* unwrap() panics on its Err, which ends main.
RedisClientNew ==
    /\ proc = "init"
    /\ proc' = IF UrlParses(redisUrl) THEN "constructed" ELSE "aborted"
    /\ UNCHANGED <<redisUrl, appData, clientImpl, pc, req, holder, poisoned, store,
                   otherWrites, resp, acq, connected, ncmd, outcome, lastWrite>>

\* HttpServer::new(..).bind(..)?.run(): the listener is bound and every
\* worker builds its App.
BindAndRun ==
    /\ proc = "constructed"
    /\ proc' = "serving"
    /\ appData' = [w \in Workers |-> AppFactory(w)]
    /\ UNCHANGED <<redisUrl, clientImpl, pc, req, holder, poisoned, store,
                   otherWrites, resp, acq, connected, ncmd, outcome, lastWrite>>

\* bind(..)? returns the io::Error: main returns it.
BindFail ==
    /\ proc = "constructed"
    /\ proc' = "exited"
    /\ UNCHANGED <<redisUrl, appData, clientImpl, pc, req, holder, poisoned, store,
                   otherWrites, resp, acq, connected, ncmd, outcome, lastWrite>>

\* ---------------------------------------------------------------- actions
\* The extractor fails: the handler body never runs.
RejectMalformed(r) ==
    /\ \E q \in Dispatched(r) :
         /\ ~JsonExtractOk(q)
         /\ req' = [req EXCEPT ![r] = q]
    /\ Finish(r, JsonRejected)
    /\ UNCHANGED <<boot, clientImpl, poisoned, store, otherWrites, acq,
                   connected, ncmd, outcome, lastWrite>>

\* lock(), had it been try_lock(): a held Mutex is an Err at once, answered
\* with LockError.
LockBlock_TryLock(r) ==
    /\ ~MutexAvailable
    /\ \E q \in Dispatched(r) :
         /\ JsonExtractOk(q)
         /\ req' = [req EXCEPT ![r] = q]
    /\ acq' = [acq EXCEPT ![r] = "poisoned"]
    /\ Finish(r, ErrorResponse(LockError))
    /\ UNCHANGED <<boot, clientImpl, poisoned, store, otherWrites,
                   connected, ncmd, outcome, lastWrite>>

\* data.client.lock() finds the Mutex held: the calling thread blocks.
LockBlock(r) ==
    /\ ~MutexAvailable
    /\ \E q \in Dispatched(r) :
         /\ JsonExtractOk(q)
         /\ req' = [req EXCEPT ![r] = q]
    /\ pc' = [pc EXCEPT ![r] = "locking"]
    /\ UNCHANGED <<boot, clientImpl, holder, poisoned, store, otherWrites, resp, acq,
                   connected, ncmd, outcome, lastWrite>>

\* data.client.lock() returns Ok(guard); the handler goes on to the awaited
\* client call and is suspended in it.
LockAcquire(r) ==
    /\ MutexAvailable
    /\ ~poisoned
    /\ \E q \in AtLock(r) : req' = [req EXCEPT ![r] = q]
    /\ holder' = r
    /\ pc' = [pc EXCEPT ![r] = "connecting"]
    /\ acq' = [acq EXCEPT ![r] = "ok"]
    /\ UNCHANGED <<boot, clientImpl, poisoned, store, otherWrites, resp,
                   connected, ncmd, outcome, lastWrite>>

\* lock() on a poisoned Mutex, had the handler taken the guard out of the
\* PoisonError (into_inner) and gone on.
LockPoisoned_Recover(r) ==
    /\ MutexAvailable
    /\ poisoned
    /\ \E q \in AtLock(r) : req' = [req EXCEPT ![r] = q]
    /\ holder' = r
    /\ pc' = [pc EXCEPT ![r] = "connecting"]
    /\ acq' = [acq EXCEPT ![r] = "ok"]
    /\ UNCHANGED <<boot, clientImpl, poisoned, store, otherWrites, resp,
                   connected, ncmd, outcome, lastWrite>>

\* data.client.lock() returns Err(PoisonError): map_err gives LockError, `?`
\* returns it, and the guard inside the error is dropped.
LockPoisoned(r) ==
    /\ MutexAvailable
    /\ poisoned
    /\ \E q \in AtLock(r) : req' = [req EXCEPT ![r] = q]
    /\ acq' = [acq EXCEPT ![r] = "poisoned"]
    /\ Finish(r, ErrorResponse(LockError))
    /\ UNCHANGED <<boot, clientImpl, poisoned, store, otherWrites,
                   connected, ncmd, outcome, lastWrite>>

\* The command, had the client sent it again after a failure.
IssueCommand_Retry(r) == [ncmd EXCEPT ![r] = @ + 2]

\* One command goes out on the connection.
IssueCommand(r) == [ncmd EXCEPT ![r] = @ + 1]

\* The handler, had it unwrapped the Result instead of mapping the error: an Err
\* unwinds the task, which sends nothing.
HandlerReturn_Unwrap(r, result) ==
    /\ outcome' = [outcome EXCEPT ![r] = result]
    /\ IF result.ok
       THEN Finish(r, IF req[r].route = "GET"
                      THEN GetValueOk(req[r].key, result.val)
                      ELSE SetValueOk)
       ELSE /\ pc' = [pc EXCEPT ![r] = "panicked"]
            /\ holder' = IF holder = r THEN 0 ELSE holder
            /\ UNCHANGED resp

\* The handler returns the client call's Result: Ok gives 200, Err goes
\* through map_err and `?` to ErrorResponse(ClientError).
HandlerReturn(r, result) ==
    /\ outcome' = [outcome EXCEPT ![r] = result]
    /\ Finish(r, IF result.ok
                 THEN IF req[r].route = "GET"
                      THEN GetValueOk(req[r].key, result.val)
                      ELSE SetValueOk
                 ELSE ErrorResponse(ClientError(result.err)))

\* The connection step, had RedisClient kept one connection and gone on
\* handing out the one that broke.
ConnectOk_Sticky(r) ==
    /\ \A o \in Reqs : outcome[o].err \notin
          {"IoError: connection refused", "IoError: broken pipe"}
    /\ pc[r] = "connecting"
    /\ ThreadFree(r)
    /\ connected' = [connected EXCEPT ![r] = TRUE]
    /\ pc' = [pc EXCEPT ![r] = "command"]
    /\ UNCHANGED <<boot, clientImpl, req, holder, poisoned, store, otherWrites, resp, acq,
                   ncmd, outcome, lastWrite>>

\* self.client.get_multiplexed_async_connection().await? with the backend
\* reachable: the call goes on to its command.
ConnectOk(r) ==
    /\ pc[r] = "connecting"
    /\ ThreadFree(r)
    /\ connected' = [connected EXCEPT ![r] = TRUE]
    /\ pc' = [pc EXCEPT ![r] = "command"]
    /\ UNCHANGED <<boot, clientImpl, req, holder, poisoned, store, otherWrites, resp, acq,
                   ncmd, outcome, lastWrite>>

\* The same with the backend unreachable: `?` returns the error.
ConnectFail(r) ==
    /\ pc[r] = "connecting"
    /\ ThreadFree(r)
    /\ HandlerReturn(r, Err("IoError: connection refused"))
    /\ UNCHANGED <<boot, clientImpl, req, poisoned, store, otherWrites, acq,
                   connected, ncmd, lastWrite>>

\* conn.get(key).await?
CommandGet(r) ==
    /\ pc[r] = "command"
    /\ req[r].route = "GET"
    /\ ThreadFree(r)
    /\ ncmd' = IssueCommand(r)
    /\ store' = RedisGetStore(req[r].key)
    /\ HandlerReturn(r, FromRedisValue(RedisGetReply(req[r].key)))
    /\ UNCHANGED <<boot, clientImpl, req, poisoned, otherWrites, acq,
                   connected, lastWrite>>

\* conn.set(key, value).await?
CommandSet(r) ==
    /\ pc[r] = "command"
    /\ req[r].route = "POST"
    /\ ThreadFree(r)
    /\ ncmd' = IssueCommand(r)
    /\ store' = RedisSetStore(req[r].key, req[r].value)
    /\ lastWrite' = [lastWrite EXCEPT ![req[r].key] = Str(req[r].value)]
    /\ HandlerReturn(r, Ok(""))
    /\ UNCHANGED <<boot, clientImpl, req, poisoned, otherWrites, acq, connected>>

\* The command is sent and the connection breaks before the reply: `?`
\* returns the error.  The backend did not apply the command.
CommandIoFail(r) ==
    /\ pc[r] = "command"
    /\ ThreadFree(r)
    /\ ncmd' = IssueCommand(r)
    /\ HandlerReturn(r, Err("IoError: broken pipe"))
    /\ UNCHANGED <<boot, clientImpl, req, poisoned, store, otherWrites, acq,
                   connected, lastWrite>>

\* An implementation of RedisAPI panics inside get or set: the task unwinds,
\* the guard is dropped while panicking, which poisons the Mutex, and the
\* connection is closed without a response.
ClientPanic(r) ==
    /\ clientImpl = "PanickingImpl"
    /\ pc[r] \in {"connecting", "command"}
    /\ ThreadFree(r)
    /\ pc' = [pc EXCEPT ![r] = "panicked"]
    /\ holder' = 0
    /\ poisoned' = TRUE
    /\ UNCHANGED <<boot, clientImpl, req, store, otherWrites, resp, acq,
                   connected, ncmd, outcome, lastWrite>>

\* Another client of the same backend writes a key (SET, or a non-string type).
OtherClientWrite ==
    /\ otherWrites < MaxOtherWrites
    /\ otherWrites' = otherWrites + 1
    /\ \E k \in Keys, x \in OtherValues :
         /\ store' = [store EXCEPT ![k] = x]
         /\ lastWrite' = [lastWrite EXCEPT ![k] = x]
    /\ UNCHANGED <<boot, clientImpl, pc, req, holder, poisoned, resp, acq,
                   connected, ncmd, outcome>>

Next ==
    \/ RedisClientNew
    \/ BindAndRun
    \/ BindFail
    \/ \E r \in Reqs : RejectMalformed(r)
    \/ \E r \in Reqs : LockBlock(r)
    \/ \E r \in Reqs : LockAcquire(r)
    \/ \E r \in Reqs : LockPoisoned(r)
    \/ \E r \in Reqs : ConnectOk(r)
    \/ \E r \in Reqs : ConnectFail(r)
    \/ \E r \in Reqs : CommandGet(r)
    \/ \E r \in Reqs : CommandSet(r)
    \/ \E r \in Reqs : CommandIoFail(r)
    \/ \E r \in Reqs : ClientPanic(r)
    \/ OtherClientWrite

Spec == Init /\ [][Next]_vars

\* The runtime polls every task that is ready on a thread that is free, and
\* every backend call returns: a step of a request that stays possible is taken.
Fairness ==
    \A r \in Reqs :
        /\ WF_vars(LockAcquire(r) \/ LockPoisoned(r))
        /\ WF_vars(ConnectOk(r) \/ ConnectFail(r))
        /\ WF_vars(CommandGet(r) \/ CommandSet(r) \/ CommandIoFail(r))

FairSpec == Init /\ [][Next]_vars /\ Fairness

\* ------------------------------------------------------- shared vocabulary
Started(r) == pc[r] # "new"
IsGet(r) == Started(r) /\ req[r].wf /\ req[r].route = "GET"
IsSet(r) == Started(r) /\ req[r].wf /\ req[r].route = "POST"
\* The request is inside a get or set call on the shared client.
InCall(r) == pc[r] \in {"connecting", "command"}
\* The I/O failures of a call, as opposed to the replies of the backend.
IoErrors == {"IoError: connection refused", "IoError: broken pipe"}
ErrDetails == IoErrors \cup {"TypeError: response was nil", "ResponseError: WRONGTYPE"}
LockFailure == Response(500, "String", "", "", "Internal server error")
BackendFailure(e) == Response(500, "String", "", "", "Failed to retrieve value: " \o e)
\* The handler of r returns in this step.
Returns(r) == pc[r] # "done" /\ pc'[r] = "done"

\* C1: at most one request is inside a get or set call on the shared client,
\* and that request is the one owning the guard.
C1_MutualExclusion ==
    /\ Cardinality({r \in Reqs : InCall(r)}) <= 1
    /\ \A r \in Reqs : InCall(r) => holder = r

\* Two requests are in progress at once: one in its call, one waiting.
C1_Witness ==
    \E r, o \in Reqs : InCall(r) /\ pc[o] = "locking" /\ req[o].worker # req[r].worker

\* C2: no deadlock state is reachable: a request blocked in lock() waits for a
\* holder whose task can still be run, so that the holder's backend call
\* returning releases the Mutex and the waiter is served.
C2_NoDeadlock ==
    \A r \in Reqs : pc[r] = "locking" => holder # 0 /\ ThreadFree(holder)

\* C3 as stated: a get_value(k) that returns after a successful set_value(k, v),
\* with no write to k in between, returns 200 with value v.
C3_RoundTripAlways ==
    [][\A g \in Reqs, v \in Values :
          (Returns(g) /\ req'[g].wf /\ req'[g].route = "GET"
             /\ lastWrite[req'[g].key] = Str(v))
          => resp'[g] = GetValueOk(req'[g].key, v)]_vars

\* C3 amended: the same get_value returns 200 with value v when it acquired the
\* shared client and its connection and command met no I/O failure.
C3_RoundTrip ==
    [][\A g \in Reqs, v \in Values :
          (Returns(g) /\ req'[g].wf /\ req'[g].route = "GET"
             /\ lastWrite[req'[g].key] = Str(v)
             /\ pc[g] = "command" /\ outcome'[g].err \notin IoErrors)
          => resp'[g] = GetValueOk(req'[g].key, v)]_vars

\* A set_value("a", "1") answered 200 and a later get_value("a") answered 200
\* with "1".
C3_Witness ==
    \E s, g \in Reqs :
        /\ s < g
        /\ IsSet(s) /\ pc[s] = "done" /\ resp[s] = SetValueOk
        /\ req[s].key = "a" /\ req[s].value = "1"
        /\ IsGet(g) /\ pc[g] = "done" /\ req[g].key = "a"
        /\ resp[g] = GetValueOk("a", "1")

\* C4: a get_value whose key was never written and whose handler called
\* client.get ends in ClientError: status 500 and a non-empty body; with
\* RedisClient behind the Mutex nothing panics and the Mutex stays usable.
C4_NeverWritten ==
    \A g \in Reqs :
        (IsGet(g) /\ lastWrite[req[g].key] = Nil) =>
            /\ (pc[g] = "done" /\ (clientImpl = "RedisClient" \/ acq[g] = "ok")) =>
                  /\ ~outcome[g].ok
                  /\ outcome[g].err \in ErrDetails
                  /\ resp[g] = BackendFailure(outcome[g].err)
                  /\ resp[g].status = 500
                  /\ Len(resp[g].body) > 0
                  /\ holder # g
            /\ clientImpl = "RedisClient" => pc[g] # "panicked" /\ ~poisoned

\* A get_value of a key never written was answered 500 on "response was nil",
\* and a later request was served with 200.
C4_Witness ==
    \E g, o \in Reqs :
        /\ g < o
        /\ IsGet(g) /\ pc[g] = "done" /\ lastWrite[req[g].key] = Nil
        /\ resp[g] = BackendFailure("TypeError: response was nil")
        /\ pc[o] = "done" /\ resp[o].status = 200

\* C5: a dispatched request whose handler returned ended in exactly one of 200,
\* 500 LockError, 500 ClientError; every Err of client.get / client.set is
\* answered 500 with the error in the body, the handler returning normally.
C5_FailuresAre500 ==
    \A r \in Reqs :
        (Started(r) /\ req[r].wf) =>
            /\ pc[r] = "done" =>
                 \/ /\ acq[r] = "ok" /\ outcome[r].ok
                    /\ resp[r] = IF req[r].route = "GET"
                                 THEN GetValueOk(req[r].key, outcome[r].val)
                                 ELSE SetValueOk
                 \/ /\ acq[r] = "poisoned" /\ outcome[r] = NoResult
                    /\ resp[r] = LockFailure
                 \/ /\ acq[r] = "ok" /\ ~outcome[r].ok
                    /\ outcome[r].err \in ErrDetails
                    /\ resp[r] = BackendFailure(outcome[r].err)
            /\ outcome[r].err # "" =>
                 /\ pc[r] = "done"
                 /\ resp[r].status = 500
                 /\ resp[r] = BackendFailure(outcome[r].err)
                 /\ holder # r
            /\ pc[r] = "panicked" => clientImpl # "RedisClient" /\ outcome[r] = NoResult

\* Two causes of a backend error, both answered 500: the backend unreachable,
\* and a reply that is not a string.
C5_Witness ==
    \E r, o \in Reqs :
        /\ pc[r] = "done" /\ resp[r] = BackendFailure("IoError: connection refused")
        /\ pc[o] = "done" /\ resp[o] = BackendFailure("ResponseError: WRONGTYPE")

\* C6: a request whose lock() failed was answered 500 with the generic body,
\* which no ClientError response equals, and it made no call on the client.
C6_LockFailure ==
    \A r \in Reqs :
        acq[r] = "poisoned" =>
            /\ pc[r] = "done"
            /\ resp[r] = LockFailure
            /\ \A e \in ErrDetails : resp[r] # ErrorResponse(ClientError(e))
            /\ ncmd[r] = 0
            /\ ~connected[r]
            /\ outcome[r] = NoResult

\* set_value found the Mutex poisoned.
C6_Witness ==
    \E r \in Reqs : IsSet(r) /\ acq[r] = "poisoned" /\ pc[r] = "done"

\* C7 as stated: every request that acquired the shared client and returned
\* issued exactly one backend command; one that did not acquire it issued none.
C7_OneCommandPerAcquire ==
    \A r \in Reqs :
        /\ (acq[r] = "ok" /\ pc[r] = "done") => ncmd[r] = 1
        /\ acq[r] # "ok" => ncmd[r] = 0

\* C7 amended: a request whose handler returned issued exactly one backend
\* command if it acquired the shared client and established its connection, and
\* none otherwise; no request ever issues more than one command or issues one
\* without the lock and a connection.
C7_SingleAttempt ==
    /\ \A r \in Reqs :
        /\ ncmd[r] <= 1
        /\ ncmd[r] = 1 => acq[r] = "ok" /\ connected[r]
        /\ connected[r] => acq[r] = "ok"
        /\ pc[r] = "done" => (ncmd[r] = 1 <=> connected[r])
    /\ Cardinality({r \in Reqs : ncmd[r] > 0}) <= Cardinality({r \in Reqs : connected[r]})
    /\ Cardinality({r \in Reqs : connected[r]}) <= Cardinality({r \in Reqs : Started(r)})

\* One request failed to connect and issued nothing; another connected, had
\* its command fail and did not retry.
C7_Witness ==
    \E r, o \in Reqs :
        /\ pc[r] = "done" /\ acq[r] = "ok" /\ ~connected[r] /\ ncmd[r] = 0
        /\ pc[o] = "done" /\ connected[o] /\ ncmd[o] = 1
        /\ outcome[o].err = "IoError: broken pipe"

\* C8: a get_value answered 200 carries its own key and the value of the
\* latest write to that key that reached the backend before its GET.
C8_GetReturnsCurrent ==
    [][\A g \in Reqs :
          (Returns(g) /\ req'[g].wf /\ req'[g].route = "GET" /\ resp'[g].status = 200)
          => /\ resp'[g].kind = "GetValueResp"
             /\ resp'[g].key = req'[g].key
             /\ lastWrite[req'[g].key].t = "str"
             /\ resp'[g].value = lastWrite[req'[g].key].s]_vars

\* A get_value("a") answered with the value another client wrote over the
\* gateway's own set_value("a", "1").
C8_Witness ==
    \E s, g \in Reqs :
        /\ IsSet(s) /\ pc[s] = "done" /\ resp[s] = SetValueOk
        /\ req[s].key = "a" /\ req[s].value = "1"
        /\ IsGet(g) /\ pc[g] = "done" /\ resp[g] = GetValueOk("a", "x")

\* C9: a set_value(k, v) answered 200 leaves the backend with k bound to
\* exactly v and every other key as it was, and its response is the bare
\* acknowledgement.
C9_SetFrame ==
    [][\A r \in Reqs :
          (Returns(r) /\ req'[r].wf /\ req'[r].route = "POST" /\ resp'[r].status = 200)
          => /\ store'[req'[r].key] = Str(req'[r].value)
             /\ \A k \in Keys \ {req'[r].key} : store'[k] = store[k]
             /\ resp'[r] = SetValueOk]_vars

\* set_value("", "") answered 200 over a key that held another value, the
\* other key keeping its own.
C9_Witness ==
    \E r, o \in Reqs :
        /\ o < r
        /\ IsSet(o) /\ pc[o] = "done" /\ req[o].key = "" /\ req[o].value = "1"
        /\ resp[o] = SetValueOk
        /\ IsSet(r) /\ pc[r] = "done" /\ req[r].key = "" /\ req[r].value = ""
        /\ resp[r] = SetValueOk
        /\ store[""] = Str("")
        /\ store["a"] = Str("x")

\* C10: a request whose body does not deserialize is answered with a 4xx
\* response and never takes the Mutex, connects or issues a command.
C10_MalformedRejected ==
    \A r \in Reqs :
        (Started(r) /\ ~req[r].wf) =>
            /\ pc[r] = "done"
            /\ resp[r].status \in 400..499
            /\ Len(resp[r].body) > 0
            /\ acq[r] = "none"
            /\ ~connected[r]
            /\ ncmd[r] = 0
            /\ outcome[r] = NoResult
            /\ holder # r

\* A malformed POST was rejected and a later well-formed request answered 200.
C10_Witness ==
    \E r, o \in Reqs :
        /\ r < o
        /\ Started(r) /\ ~req[r].wf /\ req[r].route = "POST" /\ resp[r] = JsonRejected
        /\ ~poisoned
        /\ req[o].wf /\ pc[o] = "done" /\ resp[o].status = 200

\* The addresses of Urls that are syntactically no redis address.
InvalidUrls ==
    {[scheme |-> "http", host |-> "127.0.0.1"], [scheme |-> "redis", host |-> ""],
     [scheme |-> "", host |-> ""]}

\* C11: RedisClient::new ends the process exactly when the address is
\* syntactically invalid; with a valid address construction succeeds with no
\* contact to the backend, and a backend found unreachable by a call is an Err
\* of that call, answered 500 by the handler.
C11_Startup ==
    /\ proc = "aborted" <=> (proc # "init" /\ redisUrl \in InvalidUrls)
    /\ redisUrl \in InvalidUrls => proc \in {"init", "aborted"}
    /\ redisUrl \notin InvalidUrls => proc \in {"init", "constructed", "serving", "exited"}
    /\ proc # "serving" =>
          \A r \in Reqs : pc[r] = "new" /\ ~connected[r] /\ ncmd[r] = 0
                          /\ outcome[r] = NoResult /\ resp[r] = NoResp
    /\ \A r \in Reqs :
          outcome[r].err = "IoError: connection refused" =>
              /\ proc = "serving"
              /\ acq[r] = "ok" /\ ~connected[r] /\ ncmd[r] = 0
              /\ pc[r] = "done"
              /\ resp[r] = BackendFailure("IoError: connection refused")
              /\ resp[r].status = 500

\* RedisClient::new was given an address with a foreign scheme and the process
\* ended before serving.
C11_Witness ==
    /\ proc = "aborted"
    /\ redisUrl = [scheme |-> "http", host |-> "127.0.0.1"]
    /\ \A r \in Reqs : pc[r] = "new"

\* The address parsed, the backend was never reachable, and both routes
\* answered 500.
C11_UnreachableSeen ==
    \E g, s \in Reqs :
        /\ proc = "serving" /\ redisUrl = MainUrl
        /\ IsGet(g) /\ resp[g] = BackendFailure("IoError: connection refused")
        /\ IsSet(s) /\ resp[s] = BackendFailure("IoError: connection refused")
        /\ \A r \in Reqs : ~connected[r]

\* C12: while a request stays inside its client call it keeps the guard, and
\* no other dispatched request acquires the Mutex, gets a lock() result or
\* receives a response in that time; a request leaves its call only by the
\* call returning its Result or panicking, never by a timeout or cancellation.
C12_HungCallBlocks ==
    [][\A h \in Reqs :
          /\ (InCall(h) /\ InCall(h)') =>
                /\ holder = h /\ holder' = h
                /\ \A o \in Reqs \ {h} :
                      req'[o].wf =>
                          /\ ~InCall(o)'
                          /\ resp'[o] = resp[o]
                          /\ acq'[o] = acq[o]
          /\ (InCall(h) /\ ~InCall(h)') =>
                \/ pc'[h] = "done" /\ outcome'[h] # NoResult
                \/ pc'[h] = "panicked" /\ clientImpl = "PanickingImpl"]_vars

\* A request is in its command while another, dispatched meanwhile, is still
\* waiting in lock() without a response.
C12_Witness ==
    \E h, o \in Reqs :
        /\ pc[h] = "command" /\ holder = h
        /\ pc[o] = "locking" /\ req[o].wf
        /\ resp[o] = NoResp /\ acq[o] = "none"

\* C13: a request that found the Mutex held and waits in lock() is served once
\* the holder has released: it does not wait for ever.
C13_WaiterServed ==
    \A r \in Reqs : (pc[r] = "locking") ~> (pc[r] # "locking")

\* Every worker's App refers to the one AppState, and every call on the client
\* is made by the request owning the guard.
OneClientHeld ==
    /\ proc = "serving" =>
          /\ \A w \in Workers : appData[w] = SharedData
          /\ Cardinality({appData[w] : w \in Workers}) = 1
    /\ proc # "serving" => \A w \in Workers : appData[w] = 0
    /\ \A r \in Reqs :
          /\ InCall(r) => holder = r /\ acq[r] = "ok"
          /\ (connected[r] \/ ncmd[r] > 0 \/ outcome[r] # NoResult) => acq[r] = "ok"
          /\ Started(r) => appData[req[r].worker] = SharedData

\* C14: after startup exactly one store client exists whatever the number of
\* workers, every handler reaches it through the shared AppState, it is never
\* replaced, and get or set is only ever invoked under the guard.
C14_SingleClient ==
    /\ []OneClientHeld
    /\ [][/\ clientImpl' = clientImpl
          /\ proc = "serving" => (proc' = "serving" /\ appData' = appData)]_vars

\* Requests on two different workers were both served through the same
\* AppState.
C14_Witness ==
    \E r, o \in Reqs :
        /\ req[r].worker # req[o].worker
        /\ pc[r] = "done" /\ acq[r] = "ok" /\ outcome[r].ok
        /\ pc[o] = "done" /\ acq[o] = "ok" /\ outcome[o].ok
        /\ appData[req[r].worker] = appData[req[o].worker]

\* The request is between its dispatch and its response.
InProgress(r) == pc[r] \in {"locking", "connecting", "command"}

\* C15: a handler that has produced its response, 200 or 500, no longer owns
\* the guard, and with no request in progress the Mutex is free.
C15_LockReleased ==
    /\ \A r \in Reqs : pc[r] = "done" => holder # r
    /\ holder # 0 => InCall(holder)
    /\ (\A r \in Reqs : ~InProgress(r)) => holder = 0

\* One handler returned 200, another returned early with ClientError, nothing
\* is in progress and the Mutex is free.
C15_Witness ==
    \E r, o \in Reqs :
        /\ pc[r] = "done" /\ acq[r] = "ok" /\ resp[r].status = 200
        /\ pc[o] = "done" /\ acq[o] = "ok" /\ resp[o].status = 500
        /\ \A x \in Reqs : ~InProgress(x)
        /\ holder = 0

\* C16: no step of a get_value request, whatever its end, changes the value of
\* any key in the backend; the backend changes only by a SET that a set_value
\* got through, or by another client of the backend.
C16_GetReadOnly ==
    [][/\ \A g \in Reqs :
             (pc'[g] # pc[g] /\ req'[g].wf /\ req'[g].route = "GET") => store' = store
       /\ store' # store =>
             \/ otherWrites' # otherWrites
             \/ \E s \in Reqs :
                   /\ req[s].route = "POST" /\ pc[s] = "command"
                   /\ ncmd'[s] = ncmd[s] + 1
                   /\ resp'[s] = SetValueOk]_vars

\* One get_value was answered 200 and another 500, and the key read still
\* holds the value it held.
C16_Witness ==
    \E g, o \in Reqs :
        /\ IsGet(g) /\ pc[g] = "done" /\ req[g].key = "a"
        /\ resp[g] = GetValueOk("a", "x")
        /\ IsGet(o) /\ pc[o] = "done" /\ req[o].key = ""
        /\ resp[o] = BackendFailure("TypeError: response was nil")
        /\ store = [k \in Keys |-> IF k = "a" THEN Str("x") ELSE Nil]

\* Some request has ended in ClientError.
SomeBackendFailure ==
    \E o \in Reqs : pc[o] = "done" /\ outcome[o].err # ""

\* C17: a request that ends in ClientError leaves the Mutex free and not
\* poisoned, the client and the backend as they were and nothing of its
\* connection behind; whatever failed before, a call can still connect, and a
\* later request that meets no I/O failure, its key present, is answered 200.
C17_FailureNotSticky ==
    /\ [](\A r \in Reqs :
             (pc[r] = "connecting" /\ ThreadFree(r)) => ENABLED ConnectOk(r))
    /\ [][/\ \A r \in Reqs :
                (Returns(r) /\ outcome'[r].err # "") =>
                    /\ holder = r /\ holder' = 0
                    /\ poisoned' = poisoned
                    /\ clientImpl' = clientImpl
                    /\ boot' = boot
                    /\ store' = store
                    /\ \A o \in Reqs \ {r} :
                          connected'[o] = connected[o] /\ outcome'[o] = outcome[o]
          /\ \A g \in Reqs :
                (SomeBackendFailure /\ Returns(g) /\ pc[g] = "command"
                   /\ outcome'[g].err \notin IoErrors
                   /\ (req[g].route = "GET" => store[req[g].key].t = "str"))
                => resp'[g].status = 200]_vars

\* A request failed on a refused connection and a later get_value connected
\* and was answered 200.
C17_Witness ==
    \E o, g \in Reqs :
        /\ o < g
        /\ pc[o] = "done" /\ resp[o] = BackendFailure("IoError: connection refused")
        /\ IsGet(g) /\ pc[g] = "done" /\ connected[g] /\ resp[g].status = 200
        /\ holder = 0 /\ ~poisoned

\* C18: once a handler has panicked under the guard the Mutex stays poisoned:
\* every request whose lock() returns afterwards is answered 500 LockError
\* without any call on the client, and no request is answered 200 any more.
C18_PoisonPermanent ==
    [][/\ poisoned => poisoned'
       /\ poisoned => (holder = 0 /\ holder' = 0 /\ \E p \in Reqs : pc[p] = "panicked")
       /\ \A r \in Reqs :
             (poisoned /\ req'[r].wf /\ pc[r] \in {"new", "locking"} /\ pc'[r] # pc[r]) =>
                 /\ pc'[r] = "done"
                 /\ acq'[r] = "poisoned"
                 /\ resp'[r] = LockFailure
                 /\ ncmd'[r] = 0 /\ ~connected'[r] /\ outcome'[r] = NoResult
                 /\ store' = store
       /\ \A r \in Reqs :
             (poisoned /\ Returns(r) /\ req'[r].wf) => resp'[r].status = 500]_vars

\* A set_value panicked inside the client and a later get_value was answered
\* 500 LockError.
C18_Witness ==
    \E p, g \in Reqs :
        /\ p < g
        /\ IsSet(p) /\ pc[p] = "panicked" /\ resp[p] = NoResp
        /\ poisoned
        /\ IsGet(g) /\ pc[g] = "done" /\ resp[g] = LockFailure /\ ncmd[g] = 0

====
